---- MODULE Spec2Model ----
(***************************************************************************)
(* Model of ExportQueryAPI (src/ExportQueryAPI.go): the Lambda handler     *)
(* HandleRequest and the functions it calls.                               *)
(*                                                                         *)
(* Strings are modelled as sequences of atoms (an atom is a run of         *)
(* characters that contains none of the separators the code splits on),    *)
(* so that strings.Split, the destination regexp and fmt.Sprintf are       *)
(* computed, not assumed.  Request ids (uuid.New) and job run ids are      *)
(* natural numbers; 0 stands for the empty string, the zero value of the   *)
(* package-level variable id.                                              *)
(***************************************************************************)
EXTENDS Naturals, Sequences, FiniteSets, TLC

\* ------------------------------------------------------------------ bounds

\* Goroutines that may run HandleRequest in one process.
NumProcs == 2

\* Invocations of HandleRequest in one behaviour.
MaxInvocations == 2

\* Longest destination, counted after its scheme prefix, that is enumerated.
MaxTail == 5

\* Longest Authorization header, in atoms, that is enumerated.
MaxHeaderLen == 3

\* --------------------------------------------------------- program constants

StatusOK == 200
StatusBadRequest == 400
StatusUnauthorized == 401
\* A handler that answers 401 where the source answers 403.
StatusForbiddenAsUnauthorized == StatusUnauthorized
StatusForbidden == 403
StatusInternalServerError == 500

\* ------------------------------------------------------------------ strings

SP == " "
COMMA == ","
SLASH == "/"
NEWLINE == "\n"
TAB == "\t"

RECURSIVE IndexOf(_, _, _)
\* First position >= k of atom sep in s, or 0 when there is none.
IndexOf(s, sep, k) ==
    IF k > Len(s) THEN 0
    ELSE IF s[k] = sep THEN k
    ELSE IndexOf(s, sep, k + 1)

RECURSIVE Split(_, _)
\* strings.Split(s, sep) for a one-character separator: always at least one
\* part; the parts are empty where separators are adjacent or at an end.
Split(s, sep) ==
    LET k == IndexOf(s, sep, 1)
    IN  IF k = 0 THEN << s >>
        ELSE << SubSeq(s, 1, k - 1) >> \o Split(SubSeq(s, k + 1, Len(s)), sep)

\* The characters of a string, for the destination regexp.
NoSlash(s) == \A k \in 1..Len(s) : s[k] # SLASH
NoNewline(s) == \A k \in 1..Len(s) : s[k] # NEWLINE

\* The pattern ^s3://([^/]+)/(.*)$, which lets the key be empty.
ReMatchAnyKey(s) ==
    /\ Len(s) >= 5
    /\ SubSeq(s, 1, 5) = << "s", "3", ":", SLASH, SLASH >>
    /\ \E b \in 6..Len(s) :
          /\ s[b] = SLASH
          /\ b > 6
          /\ NoSlash(SubSeq(s, 6, b - 1))
          /\ NoNewline(SubSeq(s, b + 1, Len(s)))

\* re = ^s3://([^/]+)/(.*?([^/]+)/?)$ applied with re.Match: the text is
\* "s3://", a non-empty bucket without "/", a "/", then a key made of any
\* characters but newline (.*?), a non-empty run without "/" ([^/]+) and an
\* optional final "/", up to the end of the text.
ReMatch(s) ==
    /\ Len(s) >= 5
    /\ SubSeq(s, 1, 5) = << "s", "3", ":", SLASH, SLASH >>
    /\ \E b \in 6..Len(s) :                \* b: the "/" that ends the bucket
          /\ s[b] = SLASH
          /\ b > 6
          /\ NoSlash(SubSeq(s, 6, b - 1))
          /\ \E e \in {Len(s)} \cup {n \in {Len(s) - 1} : n > b /\ s[Len(s)] = SLASH} :
                \* e: the last character of the [^/]+ run
                \E f \in (b + 1)..e :      \* f: its first character
                   /\ NoSlash(SubSeq(s, f, e))
                   /\ NoNewline(SubSeq(s, b + 1, f - 1))

\* ------------------------------------------------------- process environment

\* os.Getenv("VALID_VAULT_IDS") values the model starts from.
EnvValidVaultIds == { << "v1", COMMA, "v2" >> }

\* os.Getenv("REGION") values.
EnvRegions == { << "us-east-1" >> }

\* os.Getenv("SECRETS").
secrets == << "secret-name" >>

\* ------------------------------------------------------------------ requests

DestGood == << "s", "3", ":", SLASH, SLASH, "b", SLASH, "k" >>
DestNoKey == << "s", "3", ":", SLASH, SLASH, "b" >>

\* Request bodies after JSON decoding: the set of (key, value) members of the
\* JSON object.
Bodies ==
    { { << "query", << "q1" >> >>, << "destination", DestGood >> },
      { << "query", << >> >>, << "destination", DestGood >> },
      { << "query", << "q1" >> >>, << "destination", DestGood >>,
        << "region", << "eu-west-1" >> >> },
      { << "query", << "q1" >> >>, << "destination", DestNoKey >> },
      { << "query", << "q1" >> >> } }

\* Authorization header values (the empty one is the missing header:
\* request.Headers["Authorization"] is then "").
AuthHeaders ==
    { << "Bearer", SP, "T_OK" >>,
      << "Basic", SP, "T_OK" >>,
      << "bearer", SP, "T_OK" >>,
      << "Bearer" >>,
      << "Bearer", SP, "T_BAD" >>,
      << "Bearer", SP, "T_NOJTI" >>,
      << "Bearer", SP, "T_NUMJTI" >>,
      << "Bearer", SP, SP, "T_OK" >>,
      << >> }

\* vaultID path parameter values.
VaultIds == { << "v1" >>, << "v9" >> }

\* X-Forwarded-For header values.
ForwardedFor == { << "10.0.0.1", COMMA, SP, "10.0.0.2" >> }

\* events.APIGatewayProxyRequest, the fields the handler reads.
Requests ==
    [ Body : Bodies, vaultID : VaultIds, Authorization : AuthHeaders,
      XForwardedFor : ForwardedFor ]


\* ------------------------------------------------------- external services

\* What client.Do returns for the authorization request: a transport error
\* (its text is never empty: *url.Error prints the method and the URL), or
\* the service's response.
AuthStatuses == { 200, 204, 401 }
AuthOutcomes ==
    { [ kind |-> "error", err |-> << "Post: context deadline exceeded" >>,
        status |-> 0, body |-> << >>, requestId |-> << >> ] }
    \cup
    { [ kind |-> "response", err |-> << >>, status |-> st,
        body |-> << "service-body" >>, requestId |-> << "abc123" >> ]
      : st \in AuthStatuses }

\* What service.StartJobRun returns: an error or a job run.
JobOutcomes == { << >>, << "StartJobRun failed" >> }

\* What db.Exec returns: nil or an error.
DbOutcomes == { << >>, << "pq: insert failed" >> }

\* ------------------------------------------------------------------- state

VARIABLES
    id,             \* var id string (package level, shared by all invocations)
    validVaultIds,  \* var validVaultIds []string, set by init()
    region,         \* var region *string, set by init()
    pc,             \* where each invocation of HandleRequest stands
    local,          \* HandleRequest's local variables, per invocation
    apiResponse,    \* the response HandleRequest returns, per invocation
    myId,           \* the uuid an invocation generated at line 114 (history)
    stages,         \* the stages an invocation has started, in order (history)
    failedAt,       \* the stage an invocation failed at, or "" (history)
    authCalls,      \* requests sent to the authorization service
    emrCalls,       \* calls made to the EMR Serverless service
    dbExecs,        \* statements executed on the database
    nextUuid,       \* uuid.New(): the next fresh request id
    nextJobId       \* the job service's next fresh job run id

vars == << id, validVaultIds, region, pc, local, apiResponse, myId, stages,
           failedAt, authCalls, emrCalls, dbExecs, nextUuid, nextJobId >>

Procs == 1..NumProcs

\* The stages of HandleRequest in source order.
StageOrder ==
    << "destination", "scheme", "claim", "tenant", "authorization", "job", "audit" >>

\* SkyflowAuthorizationResponse{} (zero value).
NoAuthResponse ==
    [ RequestId |-> << >>, StatusCode |-> 0, ResponseBody |-> << >>, Error |-> << >> ]

\* HandleRequest's locals before the invocation has assigned them.
NoLocals ==
    [ body |-> [ Query |-> << >>, Destination |-> << >>, CrossBucketRegion |-> << >> ],
      vaultId |-> << >>, token |-> << >>, clientIpAddress |-> << >>,
      jti |-> << >>, authResponse |-> NoAuthResponse, jobId |-> 0,
      requestBody |-> { } ]

\* events.APIGatewayProxyResponse{} (zero value): nothing returned yet.
NoResponse == [ StatusCode |-> 0, Body |-> [ type |-> "none" ] ]

FailureResponse(Id, Message) ==
    [ type |-> "FailureResponse", id |-> Id, message |-> Message ]

\* A success body whose jobId repeats the handler's own id.
SuccessResponseOwnId(Id, JobId, RequestId, JobStatus) ==
    [ type |-> "SuccessResponse", id |-> Id, jobId |-> Id,
      requestId |-> RequestId, jobStatus |-> JobStatus ]

SuccessResponse(Id, JobId, RequestId, JobStatus) ==
    [ type |-> "SuccessResponse", id |-> Id, jobId |-> JobId,
      requestId |-> RequestId, jobStatus |-> JobStatus ]

\* ----------------------------------------------------------- pure functions

\* json.Unmarshal([]byte(request.Body), &body): a member of the JSON object
\* overwrites the field, a missing member leaves it as it was.
\* A RequestBody without the region member: the decoder never sets it.
UnmarshalWithoutRegion(json, body) ==
    LET has(k) == \E m \in json : m[1] = k
        val(k) == (CHOOSE m \in json : m[1] = k)[2]
    IN  [ Query |-> IF has("query") THEN val("query") ELSE body.Query,
          Destination |->
              IF has("destination") THEN val("destination") ELSE body.Destination,
          CrossBucketRegion |-> body.CrossBucketRegion ]

Unmarshal(json, body) ==
    LET has(k) == \E m \in json : m[1] = k
        val(k) == (CHOOSE m \in json : m[1] = k)[2]
    IN  [ Query |-> IF has("query") THEN val("query") ELSE body.Query,
          Destination |->
              IF has("destination") THEN val("destination") ELSE body.Destination,
          CrossBucketRegion |->
              IF has("region") THEN val("region") ELSE body.CrossBucketRegion ]

\* A scheme check that ignores the case of the scheme name.
ValidateAuthSchemeAnyCase(token) ==
    LET authScheme == Split(token, SP)[1]
    IN  authScheme \in { << "Bearer" >>, << "bearer" >> }

ValidateAuthScheme(token) ==
    LET authScheme == Split(token, SP)[1]
    IN  authScheme = << "Bearer" >>

\* new(jwt.Parser).ParseUnverified(tokenString, jwt.MapClaims{}) on the
\* tokens of the model: T_OK carries a string jti, T_NOJTI decodes without a
\* jti claim, T_NUMJTI decodes with a numeric jti, anything else does not
\* have three segments.
ParseUnverified(tokenString) ==
    IF tokenString = << "T_OK" >>
    THEN [ err |-> << >>,
           claims |-> { << "jti", "string", << "jti-1" >> >>,
                        << "sub", "string", << "user" >> >> } ]
    ELSE IF tokenString = << "T_NOJTI" >>
    THEN [ err |-> << >>, claims |-> { << "sub", "string", << "user" >> >> } ]
    ELSE IF tokenString = << "T_NUMJTI" >>
    THEN [ err |-> << >>,
           claims |-> { << "jti", "float64", << "7" >> >>,
                        << "sub", "string", << "user" >> >> } ]
    ELSE [ err |-> << "token contains an invalid number of segments" >>,
           claims |-> { } ]

\* ExtractJTI: the index expression [1] panics when Split yields one part,
\* and the type assertion claims["jti"].(string) panics when the claim is
\* missing (a nil interface) or is not a string.
ExtractJTI(authToken) ==
    LET parts == Split(authToken, SP)
    IN  IF Len(parts) < 2
        THEN [ panic |-> TRUE, jti |-> << >>, err |-> << >> ]
        ELSE LET parsed == ParseUnverified(parts[2])
                 jtis == { c \in parsed.claims : c[1] = "jti" }
             IN  IF parsed.err # << >>
                 THEN [ panic |-> FALSE, jti |-> << >>, err |-> parsed.err ]
                 ELSE IF \E c \in jtis : c[2] = "string"
                 THEN [ panic |-> FALSE,
                        jti |-> (CHOOSE c \in jtis : c[2] = "string")[3],
                        err |-> << >> ]
                 ELSE [ panic |-> TRUE, jti |-> << >>, err |-> << >> ]

\* An allow-list check that accepts every vault id.
ValidateVaultIdAny(vaultId) == TRUE

ValidateVaultId(vaultId) ==
    \E k \in 1..Len(validVaultIds) : vaultId = validVaultIds[k]

\* A client that sends the request whatever the query is.
SkyflowSendsAlways(query) == TRUE

\* Whether SkyflowAuthorization sends the HTTP request (lines 318-340).
SkyflowSendsRequest(query) == Len(query) # 0

\* SkyflowAuthorization without the check of the query.
SkyflowAuthorizationNoQueryCheck(query, outcome) ==
    IF outcome.kind = "error"
    THEN [ NoAuthResponse EXCEPT !.StatusCode = StatusInternalServerError,
                                 !.Error = outcome.err ]
    ELSE [ RequestId |-> outcome.requestId, StatusCode |-> outcome.status,
           ResponseBody |-> outcome.body, Error |-> << >> ]

\* SkyflowAuthorization that reports a non-200 answer as an error of its own.
SkyflowAuthorizationNon200AsError(query, outcome) ==
    IF Len(query) = 0
    THEN [ NoAuthResponse EXCEPT !.StatusCode = StatusUnauthorized,
                                 !.Error = << "Invalid Query" >> ]
    ELSE IF outcome.kind = "error"
    THEN [ NoAuthResponse EXCEPT !.StatusCode = StatusInternalServerError,
                                 !.Error = outcome.err ]
    ELSE IF outcome.status # StatusOK
    THEN [ NoAuthResponse EXCEPT !.StatusCode = StatusInternalServerError,
                                 !.Error = outcome.body ]
    ELSE [ RequestId |-> outcome.requestId, StatusCode |-> outcome.status,
           ResponseBody |-> outcome.body, Error |-> << >> ]

\* SkyflowAuthorization that leaves the status 200 on the empty-query outcome.
SkyflowAuthorizationEmptyQueryOK(query, outcome) ==
    IF Len(query) = 0
    THEN [ NoAuthResponse EXCEPT !.StatusCode = StatusOK,
                                 !.Error = << "Invalid Query" >> ]
    ELSE IF outcome.kind = "error"
    THEN [ NoAuthResponse EXCEPT !.StatusCode = StatusInternalServerError,
                                 !.Error = outcome.err ]
    ELSE [ RequestId |-> outcome.requestId, StatusCode |-> outcome.status,
           ResponseBody |-> outcome.body, Error |-> << >> ]

\* The SkyflowAuthorizationResponse SkyflowAuthorization returns, given what
\* client.Do returned (outcome is not looked at when no request is sent).
SkyflowAuthorization(query, outcome) ==
    IF Len(query) = 0
    THEN [ NoAuthResponse EXCEPT !.StatusCode = StatusUnauthorized,
                                 !.Error = << "Invalid Query" >> ]
    ELSE IF outcome.kind = "error"
    THEN [ NoAuthResponse EXCEPT !.StatusCode = StatusInternalServerError,
                                 !.Error = outcome.err ]
    ELSE [ RequestId |-> outcome.requestId, StatusCode |-> outcome.status,
           ResponseBody |-> outcome.body, Error |-> << >> ]


\* Line 196: the authorization outcome carries an error text.
AuthorizationFailed(authResponse) == authResponse.Error # << >>

\* A check that lets every 2xx status through.
AuthorizationRejectedNon2xx(authResponse) ==
    authResponse.StatusCode < 200 \/ authResponse.StatusCode > 299

\* Line 208: the authorization service answered anything but 200.
AuthorizationRejected(authResponse) == authResponse.StatusCode # StatusOK

\* A check that never sees the audit error.
LogJobFailedNever(logJobError) == FALSE

\* Line 247: LogJob returned an error.
LogJobFailed(logJobError) == logJobError # << >>

\* ------------------------------------------------------------------ actions

\* init(), lines 68-107, for a VALID_VAULT_IDS among envs.
InitEnv(envs) ==
    /\ id = 0
    /\ \E env \in envs : validVaultIds = Split(env, COMMA)
    /\ region \in EnvRegions
    /\ pc = [ i \in Procs |-> "idle" ]
    /\ local = [ i \in Procs |-> NoLocals ]
    /\ apiResponse = [ i \in Procs |-> NoResponse ]
    /\ myId = [ i \in Procs |-> 0 ]
    /\ stages = [ i \in Procs |-> << >> ]
    /\ failedAt = [ i \in Procs |-> "" ]
    /\ authCalls = << >>
    /\ emrCalls = << >>
    /\ dbExecs = << >>
    /\ nextUuid = 1
    /\ nextJobId = 1

Init == InitEnv(EnvValidVaultIds)

\* An invocation enters a stage.
Enter(i, stage) == stages' = [ stages EXCEPT ![i] = Append(@, stage) ]

\* The stage after a stage in source order ("done" after the last).
NextStage(stage) ==
    IF \E k \in 1..(Len(StageOrder) - 1) : StageOrder[k] = stage
    THEN StageOrder[(CHOOSE k \in 1..(Len(StageOrder) - 1) : StageOrder[k] = stage) + 1]
    ELSE "done"

\* A failure branch without its return statement: the response is set and
\* control falls through to the next stage.
FailNoReturn(i, stage, status, message) ==
    /\ apiResponse' =
          [ apiResponse EXCEPT
              ![i] = [ StatusCode |-> status, Body |-> FailureResponse(id, message) ] ]
    /\ failedAt' = [ failedAt EXCEPT ![i] = stage ]
    /\ pc' = [ pc EXCEPT ![i] = NextStage(stage) ]

\* A stage fails: marshal FailureResponse{Id: id, Message: message}, set the
\* status code and return.  id is the package-level variable, read now.
Fail(i, stage, status, message) ==
    /\ apiResponse' =
          [ apiResponse EXCEPT
              ![i] = [ StatusCode |-> status, Body |-> FailureResponse(id, message) ] ]
    /\ failedAt' = [ failedAt EXCEPT ![i] = stage ]
    /\ pc' = [ pc EXCEPT ![i] = "done" ]

\* A stage succeeds: control falls through to the next stage.
Pass(i, next) ==
    /\ pc' = [ pc EXCEPT ![i] = next ]
    /\ UNCHANGED << apiResponse, failedAt >>

\* A stage panics: HandleRequest is unwound and returns nothing.
Panic(i, stage) ==
    /\ pc' = [ pc EXCEPT ![i] = "panicked" ]
    /\ failedAt' = [ failedAt EXCEPT ![i] = stage ]
    /\ UNCHANGED apiResponse

\* HandleRequest, lines 113-137: a new request id is stored in the package
\* level id, the body is decoded over the default region, the path parameter
\* and the headers are read.
\* The request is one of reqs.
InvokeWith(i, reqs) ==
    /\ pc[i] = "idle"
    /\ nextUuid <= MaxInvocations
    /\ \E r \in reqs :
          local' =
            [ local EXCEPT
                ![i] = [ NoLocals EXCEPT
                           !.body =
                               Unmarshal(r.Body,
                                         [ NoLocals.body EXCEPT
                                             !.CrossBucketRegion = region ]),
                           !.vaultId = r.vaultID,
                           !.token = r.Authorization,
                           !.clientIpAddress = Split(r.XForwardedFor, COMMA)[1],
                           !.requestBody = r.Body ] ]
    /\ id' = nextUuid
    /\ myId' = [ myId EXCEPT ![i] = nextUuid ]
    /\ nextUuid' = nextUuid + 1
    /\ pc' = [ pc EXCEPT ![i] = "destination" ]
    /\ UNCHANGED << validVaultIds, region, apiResponse, stages, failedAt,
                    authCalls, emrCalls, dbExecs, nextJobId >>

Invoke(i) == InvokeWith(i, Requests)

\* lambda.Start(HandleRequest): the runtime hands the process one event at a
\* time, the next one after the handler has returned.
InvokeSerial ==
    /\ \A j \in Procs : pc[j] = "idle"
    /\ Invoke(1)

\* Lines 139-149.
ValidateDestination(i) ==
    /\ pc[i] = "destination"
    /\ Enter(i, "destination")
    /\ IF ~ReMatch(local[i].body.Destination)
       THEN Fail(i, "destination", StatusBadRequest,
                 << "Invalid s3 destination path." >>)
       ELSE Pass(i, "scheme")
    /\ UNCHANGED << id, validVaultIds, region, local, myId, authCalls, emrCalls,
                    dbExecs, nextUuid, nextJobId >>

\* Lines 151-162.
CheckAuthScheme(i) ==
    /\ pc[i] = "scheme"
    /\ Enter(i, "scheme")
    /\ IF ~ValidateAuthScheme(local[i].token)
       THEN Fail(i, "scheme", StatusUnauthorized, << "Auth Scheme not supported" >>)
       ELSE Pass(i, "claim")
    /\ UNCHANGED << id, validVaultIds, region, local, myId, authCalls, emrCalls,
                    dbExecs, nextUuid, nextJobId >>

\* Lines 164-179.
ExtractClaim(i) ==
    LET r == ExtractJTI(local[i].token)
    IN  /\ pc[i] = "claim"
        /\ Enter(i, "claim")
        /\ IF r.panic
           THEN Panic(i, "claim") /\ UNCHANGED local
           ELSE IF r.err # << >>
           THEN /\ Fail(i, "claim", StatusForbidden,
                        << "Failed to extract jti with error: " >> \o r.err)
                /\ UNCHANGED local
           ELSE /\ Pass(i, "tenant")
                /\ local' = [ local EXCEPT ![i].jti = r.jti ]
        /\ UNCHANGED << id, validVaultIds, region, myId, authCalls, emrCalls,
                        dbExecs, nextUuid, nextJobId >>

\* Lines 181-192.
CheckVaultId(i) ==
    /\ pc[i] = "tenant"
    /\ Enter(i, "tenant")
    /\ IF ~ValidateVaultId(local[i].vaultId)
       THEN Fail(i, "tenant", StatusForbidden, << "Invalid Vault ID" >>)
       ELSE Pass(i, "authorization")
    /\ UNCHANGED << id, validVaultIds, region, local, myId, authCalls, emrCalls,
                    dbExecs, nextUuid, nextJobId >>

\* A request whose Authorization header is prefixed with the scheme again.
AuthRequestReprefixed(i, outcome) ==
    [ by |-> myId[i], outcome |-> outcome,
      url |-> << "VAULT_URL", "/v1/vaults/" >> \o local[i].vaultId \o << "/query" >>,
      Authorization |-> << "Bearer", SP >> \o local[i].token,
      query |-> local[i].body.Query ]

\* The request SkyflowAuthorization sends (lines 325-340), with what
\* client.Do returned for it.
AuthRequest(i, outcome) ==
    [ by |-> myId[i], outcome |-> outcome,
      url |-> << "VAULT_URL", "/v1/vaults/" >> \o local[i].vaultId \o << "/query" >>,
      Authorization |-> local[i].token,
      query |-> local[i].body.Query ]

\* Lines 194-218: SkyflowAuthorization and the two checks of its outcome.
Authorize(i) ==
    /\ pc[i] = "authorization"
    /\ Enter(i, "authorization")
    /\ \E outcome \in AuthOutcomes :
          LET authResponse == SkyflowAuthorization(local[i].body.Query, outcome)
          IN  /\ SkyflowSendsRequest(local[i].body.Query)
                    \/ outcome = CHOOSE o \in AuthOutcomes : TRUE
              /\ authCalls' =
                    IF SkyflowSendsRequest(local[i].body.Query)
                    THEN Append(authCalls, AuthRequest(i, outcome))
                    ELSE authCalls
              /\ local' = [ local EXCEPT ![i].authResponse = authResponse ]
              /\ IF AuthorizationFailed(authResponse)
                 THEN Fail(i, "authorization", authResponse.StatusCode,
                           authResponse.Error)
                 ELSE IF AuthorizationRejected(authResponse)
                 THEN Fail(i, "authorization", authResponse.StatusCode,
                           authResponse.ResponseBody)
                 ELSE Pass(i, "job")
    /\ UNCHANGED << id, validVaultIds, region, myId, emrCalls, dbExecs,
                    nextUuid, nextJobId >>

\* TriggerEMRJob's entryPointArguments (line 364).
EntryPointArguments(query, reqId) == << query, reqId, secrets, region >>

\* Lines 231-242: TriggerEMRJob(body.Query, id).
SubmitJob(i) ==
    /\ pc[i] = "job"
    /\ Enter(i, "job")
    /\ \E err \in JobOutcomes :
          /\ emrCalls' =
                Append(emrCalls,
                       [ op |-> "StartJobRun", by |-> myId[i],
                         args |-> EntryPointArguments(local[i].body.Query, id),
                         jobRunId |-> IF err = << >> THEN nextJobId ELSE 0 ])
          /\ IF err # << >>
             THEN /\ Fail(i, "job", StatusInternalServerError,
                          << "Failed to trigger Spark job with error: " >>
                              \o err \o << NEWLINE >>)
                  /\ UNCHANGED << local, nextJobId >>
             ELSE /\ Pass(i, "audit")
                  /\ local' = [ local EXCEPT ![i].jobId = nextJobId ]
                  /\ nextJobId' = nextJobId + 1
    /\ UNCHANGED << id, validVaultIds, region, myId, authCalls, dbExecs, nextUuid >>

\* An INSERT whose first two values are bound the other way round.
AuditRowSwapped(i, jobStatus) ==
    [ id |-> local[i].jobId, jobid |-> id, jobstatus |-> jobStatus,
      requestid |-> local[i].authResponse.RequestId,
      query |-> local[i].body.Query,
      destination |-> local[i].body.Destination,
      cross_bucket_region |-> local[i].body.CrossBucketRegion,
      jti |-> local[i].jti, client_ip |-> local[i].clientIpAddress ]

\* The values LogJob binds to its INSERT (line 408), createdat left out.
AuditRow(i, jobStatus) ==
    [ id |-> id, jobid |-> local[i].jobId, jobstatus |-> jobStatus,
      requestid |-> local[i].authResponse.RequestId,
      query |-> local[i].body.Query,
      destination |-> local[i].body.Destination,
      cross_bucket_region |-> local[i].body.CrossBucketRegion,
      jti |-> local[i].jti, client_ip |-> local[i].clientIpAddress ]

\* Lines 244-269: LogJob, then the success response.
WriteAudit(i) ==
    LET jobStatus == << "INITIATED" >>
    IN  /\ pc[i] = "audit"
        /\ Enter(i, "audit")
        /\ \E logJobError \in DbOutcomes :
              /\ dbExecs' =
                    Append(dbExecs,
                           [ by |-> myId[i], row |-> AuditRow(i, jobStatus),
                             err |-> logJobError ])
              /\ IF LogJobFailed(logJobError)
                 THEN Fail(i, "audit", StatusInternalServerError,
                           << "Failed to log job with error: " >>
                               \o logJobError \o << NEWLINE >>)
                 ELSE /\ apiResponse' =
                            [ apiResponse EXCEPT
                                ![i] = [ StatusCode |-> StatusOK,
                                         Body |-> SuccessResponse(
                                                    id, local[i].jobId,
                                                    local[i].authResponse.RequestId,
                                                    jobStatus) ] ]
                      /\ pc' = [ pc EXCEPT ![i] = "done" ]
                      /\ UNCHANGED failedAt
        /\ UNCHANGED << id, validVaultIds, region, local, myId, authCalls,
                        emrCalls, nextUuid, nextJobId >>

\* HandleRequest has returned (or was unwound by a panic): its locals are
\* gone and the goroutine can take the next event.
Return(i) ==
    /\ pc[i] \in { "done", "panicked" }
    /\ pc' = [ pc EXCEPT ![i] = "idle" ]
    /\ local' = [ local EXCEPT ![i] = NoLocals ]
    /\ apiResponse' = [ apiResponse EXCEPT ![i] = NoResponse ]
    /\ myId' = [ myId EXCEPT ![i] = 0 ]
    /\ stages' = [ stages EXCEPT ![i] = << >> ]
    /\ failedAt' = [ failedAt EXCEPT ![i] = "" ]
    /\ UNCHANGED << id, validVaultIds, region, authCalls, emrCalls, dbExecs,
                    nextUuid, nextJobId >>

Step(i) ==
    \/ ValidateDestination(i)
    \/ CheckAuthScheme(i)
    \/ ExtractClaim(i)
    \/ CheckVaultId(i)
    \/ Authorize(i)
    \/ SubmitJob(i)
    \/ WriteAudit(i)
    \/ Return(i)

\* Invocations one after another, as the Lambda runtime runs them.
Next ==
    \/ InvokeSerial
    \/ \E i \in Procs : Step(i)

Spec == Init /\ [][Next]_vars

\* Invocations in parallel in one process.
NextPar ==
    \/ \E i \in Procs : Invoke(i)
    \/ \E i \in Procs : Step(i)

SpecPar == Init /\ [][NextPar]_vars


\* ------------------------------------------------- enumerated request fields

\* All strings of at most n atoms of alphabet.
SeqsUpTo(alphabet, n) == UNION { [ 1..m -> alphabet ] : m \in 0..n }

\* Destinations: a scheme prefix, right or wrong, and every tail of "/",
\* "b" and newline.
WideDestinations ==
    { p \o t : p \in { << "s", "3", ":", SLASH, SLASH >>,
                       << "s", "3", ":", SLASH >>,
                       << >> },
               t \in SeqsUpTo({ SLASH, "b", NEWLINE }, MaxTail) }

\* Authorization headers: every string of the scheme in two cases, a
\* token, a space and a tab.
WideAuthHeaders == SeqsUpTo({ "Bearer", "bearer", "T_OK", SP, TAB }, MaxHeaderLen)

\* vaultID path parameters, the missing one (the empty string) included.
WideVaultIds == { << >>, << "v1" >>, << "v2" >>, << "v9" >>, << "v1", COMMA, "v2" >> }

\* os.Getenv("VALID_VAULT_IDS"): unset or empty, one id, two ids.
WideEnvValidVaultIds == { << >>, << "v1" >>, << "v1", COMMA, "v2" >> }

\* A request that passes every validation when v1 is allowed.
GoodRequest ==
    [ Body |-> { << "query", << "q1" >> >>, << "destination", DestGood >> },
      vaultID |-> << "v1" >>,
      Authorization |-> << "Bearer", SP, "T_OK" >>,
      XForwardedFor |-> << "10.0.0.1", COMMA, SP, "10.0.0.2" >> ]

\* Requests that differ from the good one in one field.
WideRequests ==
    { [ GoodRequest EXCEPT
          !.Body = { << "query", << "q1" >> >>, << "destination", d >> } ]
      : d \in WideDestinations }
    \cup { [ GoodRequest EXCEPT !.Authorization = h ] : h \in WideAuthHeaders }
    \cup { [ GoodRequest EXCEPT !.vaultID = v ] : v \in WideVaultIds }

InitInputs == InitEnv(WideEnvValidVaultIds)

\* The first event a process is handed.
InvokeInputs ==
    /\ \A j \in Procs : pc[j] = "idle"
    /\ nextUuid = 1
    /\ InvokeWith(1, WideRequests)

\* The first invocation of a process, over the enumerated request fields
\* and allow-lists.
NextInputs ==
    \/ InvokeInputs
    \/ \E i \in Procs : Step(i)

SpecInputs == InitInputs /\ [][NextInputs]_vars

\* ================================================================== claims

\* What an invocation did, read from the logs of the external services.
MyAuthCalls(i) == { k \in DOMAIN authCalls : authCalls[k].by = myId[i] }
MyEmrCalls(i) == { k \in DOMAIN emrCalls : emrCalls[k].by = myId[i] }
MyDbExecs(i) == { k \in DOMAIN dbExecs : dbExecs[k].by = myId[i] }

Started(i, stage) == \E k \in DOMAIN stages[i] : stages[i][k] = stage

\* What each stage had to decide, read from the invocation's inputs and from
\* what the external services answered.
DestinationAccepted(i) == ReMatch(local[i].body.Destination)
SchemeAccepted(i) == Split(local[i].token, SP)[1] = << "Bearer" >>
ClaimExtracted(i) ==
    LET r == ExtractJTI(local[i].token)
    IN  ~r.panic /\ r.err = << >>
TenantAllowed(i) ==
    \E k \in DOMAIN validVaultIds : validVaultIds[k] = local[i].vaultId
Authorized(i) ==
    \E k \in MyAuthCalls(i) :
        authCalls[k].outcome.kind = "response" /\ authCalls[k].outcome.status = 200
JobSubmitted(i) == \E k \in MyEmrCalls(i) : emrCalls[k].jobRunId # 0
AuditWritten(i) == \E k \in MyDbExecs(i) : dbExecs[k].err = << >>

\* C1: within one invocation the stages start in the order destination,
\* scheme, claim, tenant, authorization, job, audit, each at most once; a
\* stage is started only if every earlier stage succeeded; after a failure
\* no later stage (the audit write included) is started.
C1_StagesInOrder ==
    \A i \in Procs :
        /\ Len(stages[i]) <= Len(StageOrder)
        /\ stages[i] = SubSeq(StageOrder, 1, Len(stages[i]))
        /\ Started(i, "scheme") => DestinationAccepted(i)
        /\ Started(i, "claim") => SchemeAccepted(i)
        /\ Started(i, "tenant") => ClaimExtracted(i)
        /\ Started(i, "authorization") => TenantAllowed(i)
        /\ Started(i, "job") => Authorized(i)
        /\ Started(i, "audit") => JobSubmitted(i)
        /\ failedAt[i] # "" =>
              /\ stages[i] # << >>
              /\ stages[i][Len(stages[i])] = failedAt[i]
              /\ pc[i] \in { "done", "panicked" }
        /\ MyAuthCalls(i) # { } => Started(i, "authorization")
        /\ MyEmrCalls(i) # { } => Started(i, "job")
        /\ MyDbExecs(i) # { } => Started(i, "audit")

\* C1 witness: an invocation that failed at the authorization stage after
\* the four validations, while an earlier invocation ran all seven stages.
C1_Witness ==
    \E i \in Procs :
        /\ pc[i] = "done"
        /\ failedAt[i] = "authorization"
        /\ stages[i] = SubSeq(StageOrder, 1, 5)
        /\ \E k \in DOMAIN dbExecs : dbExecs[k].by # myId[i]

\* C2: a job is submitted only in an invocation whose authorization outcome
\* has no error text and status 200; with any other outcome (empty query,
\* transport failure, a non-200 status, other 2xx included) the invocation
\* submits no job and writes no audit row.
C2_JobOnlyWhenAuthorized ==
    \A i \in Procs :
        LET a == local[i].authResponse
        IN  /\ (MyEmrCalls(i) # { } \/ MyDbExecs(i) # { }) =>
                  /\ a.Error = << >>
                  /\ a.StatusCode = 200
                  /\ Authorized(i)
                  /\ local[i].body.Query # << >>
            /\ (Started(i, "authorization") /\ ~Authorized(i)) =>
                  /\ MyEmrCalls(i) = { }
                  /\ MyDbExecs(i) = { }
                  /\ pc[i] = "done"
                  /\ apiResponse[i].Body.type = "FailureResponse"

\* C2 witness: the service answered 204 and the invocation ended without a
\* job, while an earlier invocation did submit one.
C2_Witness ==
    \E i \in Procs :
        /\ pc[i] = "done"
        /\ local[i].authResponse.StatusCode = 204
        /\ MyEmrCalls(i) = { }
        /\ emrCalls # << >>

\* C3: an invocation that fails at destination validation, auth-scheme
\* validation, claim extraction or the allow-list check makes no external
\* call; when the first three pass and the vault id is not in the allow-list
\* the response is 403 "Invalid Vault ID".
C3_NoCallOnClientError ==
    \A i \in Procs :
        /\ ( /\ pc[i] \in { "done", "panicked" }
             /\ \/ ~DestinationAccepted(i)
                \/ ~SchemeAccepted(i)
                \/ ~ClaimExtracted(i)
                \/ ~TenantAllowed(i) ) =>
              /\ MyAuthCalls(i) = { }
              /\ MyEmrCalls(i) = { }
              /\ MyDbExecs(i) = { }
        /\ failedAt[i] \in { "destination", "scheme", "claim", "tenant" } =>
              /\ MyAuthCalls(i) = { }
              /\ MyEmrCalls(i) = { }
              /\ MyDbExecs(i) = { }
        /\ ( /\ pc[i] = "done"
             /\ DestinationAccepted(i)
             /\ SchemeAccepted(i)
             /\ ClaimExtracted(i)
             /\ ~TenantAllowed(i) ) =>
              /\ apiResponse[i].StatusCode = 403
              /\ apiResponse[i].Body = FailureResponse(myId[i], << "Invalid Vault ID" >>)

\* C3 witness: a request with a good destination, scheme and token for a
\* vault that is not allowed has been answered.
C3_Witness ==
    \E i \in Procs :
        /\ pc[i] = "done"
        /\ DestinationAccepted(i)
        /\ SchemeAccepted(i)
        /\ ClaimExtracted(i)
        /\ ~TenantAllowed(i)
        /\ apiResponse[i].StatusCode = 403

\* The stage at which an answered invocation failed first, from its inputs
\* and the services' answers ("" when none failed).
FirstFailingStage(i) ==
    IF ~DestinationAccepted(i) THEN "destination"
    ELSE IF ~SchemeAccepted(i) THEN "scheme"
    ELSE IF ~ClaimExtracted(i) THEN "claim"
    ELSE IF ~TenantAllowed(i) THEN "tenant"
    ELSE IF ~Authorized(i) THEN "authorization"
    ELSE IF ~JobSubmitted(i) THEN "job"
    ELSE IF ~AuditWritten(i) THEN "audit"
    ELSE ""

\* C4: the status code of a failure response is decided by the first
\* failing stage: 400 destination, 401 auth scheme, 403 claim extraction,
\* 403 unknown tenant, the service's own status when it rejects, 500 job
\* submission, 500 audit write.
C4_StatusByStage ==
    \A i \in Procs :
        (pc[i] = "done" /\ apiResponse[i].Body.type = "FailureResponse") =>
            LET st == apiResponse[i].StatusCode
                f == FirstFailingStage(i)
            IN  /\ f = failedAt[i]
                /\ f = "destination" => st = 400
                /\ f = "scheme" => st = 401
                /\ f = "claim" => st = 403
                /\ f = "tenant" => st = 403
                /\ f = "authorization" =>
                      \A k \in MyAuthCalls(i) :
                          authCalls[k].outcome.kind = "response" =>
                              st = authCalls[k].outcome.status
                /\ f = "job" => st = 500
                /\ f = "audit" => st = 500
                /\ f # ""

\* C4 witness: a token that does not decode has been answered 403, after
\* an earlier invocation was rejected by the authorization service.
C4_Witness ==
    \E i \in Procs :
        /\ pc[i] = "done"
        /\ failedAt[i] = "claim"
        /\ apiResponse[i].StatusCode = 403
        /\ \E k \in DOMAIN authCalls : authCalls[k].outcome.status = 401


\* C5: every invocation, whatever the request and whatever the external
\* calls answer, ends by returning a SuccessResponse or a FailureResponse
\* that carries the invocation's request id; none ends without one.
C5_AlwaysStructuredResponse ==
    \A i \in Procs :
        pc[i] \in { "done", "panicked" } =>
            /\ pc[i] = "done"
            /\ apiResponse[i].Body.type \in { "SuccessResponse", "FailureResponse" }
            /\ apiResponse[i].Body.id = myId[i]

\* The second space-separated part of the Authorization header decodes as
\* a token.
TokenDecodes(i) ==
    LET parts == Split(local[i].token, SP)
    IN  Len(parts) >= 2 /\ ParseUnverified(parts[2]).err = << >>

\* The decoded token carries a jti claim that is a string.
TokenHasStringJti(i) ==
    LET parts == Split(local[i].token, SP)
    IN  /\ TokenDecodes(i)
        /\ \E c \in ParseUnverified(parts[2]).claims :
              c[1] = "jti" /\ c[2] = "string"

\* C6: for a header with a second part, ExtractJTI returns an error, which
\* HandleRequest answers with 403 and the error message, when that part does
\* not decode and also when it decodes without a string jti claim; it
\* returns the jti only when the token decodes and carries a string jti.
C6_ExtractJTIReturnsError ==
    \A i \in Procs :
        (Started(i, "claim") /\ Len(Split(local[i].token, SP)) >= 2) =>
            LET r == ExtractJTI(local[i].token)
            IN  IF TokenHasStringJti(i)
                THEN ~r.panic /\ r.err = << >> /\ local[i].jti = r.jti
                ELSE /\ ~r.panic
                     /\ r.err # << >>
                     /\ pc[i] = "done"
                     /\ apiResponse[i].StatusCode = 403
                     /\ apiResponse[i].Body =
                           FailureResponse(
                               myId[i],
                               << "Failed to extract jti with error: " >> \o r.err)

\* C7: when job submission succeeded and the audit write failed, the
\* response is 500 with the audit error text in its message, the invocation
\* made no further call to the job service (the job stays submitted), and
\* the response carries no job id.
C7_AuditFailureAfterSubmit ==
    \A i \in Procs :
        \A d \in MyDbExecs(i) :
            (pc[i] = "done" /\ JobSubmitted(i) /\ dbExecs[d].err # << >>) =>
                /\ apiResponse[i].StatusCode = 500
                /\ apiResponse[i].Body.type = "FailureResponse"
                /\ apiResponse[i].Body.message =
                      << "Failed to log job with error: " >>
                          \o dbExecs[d].err \o << NEWLINE >>
                /\ DOMAIN apiResponse[i].Body = { "type", "id", "message" }
                /\ Cardinality(MyEmrCalls(i)) = 1
                /\ \A k \in MyEmrCalls(i) :
                      /\ emrCalls[k].op = "StartJobRun"
                      /\ emrCalls[k].jobRunId = local[i].jobId
                      /\ emrCalls[k].jobRunId # 0

\* C7 witness: an answered invocation whose job was submitted and whose
\* audit insert failed.
C7_Witness ==
    \E i \in Procs :
        /\ pc[i] = "done"
        /\ JobSubmitted(i)
        /\ \E d \in MyDbExecs(i) : dbExecs[d].err # << >>
        /\ apiResponse[i].StatusCode = 500

\* C8: an invocation is answered 200 exactly when the authorization service
\* answered 200, the job was submitted and the audit row was written; the
\* 200 body has the job service's id for this submission, the x-request-id
\* of the authorization response and jobStatus INITIATED, and the job was
\* submitted with the invocation's query and request id.
C8_SuccessExactlyWhenAllSucceed ==
    \A i \in Procs :
        pc[i] = "done" =>
            /\ apiResponse[i].StatusCode = 200
                  <=> (Authorized(i) /\ JobSubmitted(i) /\ AuditWritten(i))
            /\ apiResponse[i].StatusCode = 200 =>
                  /\ apiResponse[i].Body.type = "SuccessResponse"
                  /\ apiResponse[i].Body.id = myId[i]
                  /\ apiResponse[i].Body.jobStatus = << "INITIATED" >>
                  /\ Cardinality(MyEmrCalls(i)) = 1
                  /\ Cardinality(MyAuthCalls(i)) = 1
                  /\ \A k \in MyEmrCalls(i) :
                        /\ apiResponse[i].Body.jobId = emrCalls[k].jobRunId
                        /\ emrCalls[k].args[1] = local[i].body.Query
                        /\ emrCalls[k].args[2] = myId[i]
                  /\ \A k \in MyAuthCalls(i) :
                        apiResponse[i].Body.requestId = authCalls[k].outcome.requestId

\* C8 witness: the second invocation of a process has been answered 200.
C8_Witness ==
    \E i \in Procs :
        /\ pc[i] = "done"
        /\ apiResponse[i].StatusCode = 200
        /\ myId[i] = 2
        /\ Authorized(i) /\ JobSubmitted(i) /\ AuditWritten(i)

\* C9 as stated: each external call is issued at most once per invocation,
\* and exactly once in an invocation that reaches its stage.
C9_ExactlyOncePerReachedStage ==
    \A i \in Procs :
        /\ Cardinality(MyAuthCalls(i)) <= 1
        /\ Cardinality(MyEmrCalls(i)) <= 1
        /\ Cardinality(MyDbExecs(i)) <= 1
        /\ (Started(i, "authorization") /\ pc[i] # "authorization") =>
              Cardinality(MyAuthCalls(i)) = 1
        /\ (Started(i, "job") /\ pc[i] # "job") => Cardinality(MyEmrCalls(i)) = 1
        /\ (Started(i, "audit") /\ pc[i] # "audit") => Cardinality(MyDbExecs(i)) = 1

\* C9 amended: each external call is issued at most once per invocation;
\* the job submission and the audit insert are issued exactly once in an
\* invocation that reaches their stage, and the authorization request
\* exactly once in an invocation that reaches the authorization stage with
\* a non-empty query and not at all when the query is empty.
C9_OncePerStageUnlessEmptyQuery ==
    \A i \in Procs :
        /\ Cardinality(MyAuthCalls(i)) <= 1
        /\ Cardinality(MyEmrCalls(i)) <= 1
        /\ Cardinality(MyDbExecs(i)) <= 1
        /\ (Started(i, "authorization") /\ pc[i] # "authorization") =>
              Cardinality(MyAuthCalls(i)) =
                  IF local[i].body.Query = << >> THEN 0 ELSE 1
        /\ (Started(i, "job") /\ pc[i] # "job") => Cardinality(MyEmrCalls(i)) = 1
        /\ (Started(i, "audit") /\ pc[i] # "audit") => Cardinality(MyDbExecs(i)) = 1

\* C9 witness: an invocation past the authorization stage with an empty
\* query and no request sent, after an invocation that made all three calls
\* and failed at the last.
C9_Witness ==
    \E i \in Procs :
        /\ pc[i] = "done"
        /\ Started(i, "authorization")
        /\ local[i].body.Query = << >>
        /\ MyAuthCalls(i) = { }
        /\ \E d \in DOMAIN dbExecs : dbExecs[d].err # << >>

\* C10: with invocations running in parallel in one process, the request id
\* in an invocation's response body, in its job-submission arguments and in
\* its audit row is the id that invocation generated.
C10_IdsIsolated ==
    /\ \A i \in Procs :
          (pc[i] = "done" /\ apiResponse[i].Body.type # "none") =>
              apiResponse[i].Body.id = myId[i]
    /\ \A k \in DOMAIN emrCalls : emrCalls[k].args[2] = emrCalls[k].by
    /\ \A d \in DOMAIN dbExecs : dbExecs[d].row.id = dbExecs[d].by


\* C11 as stated: every invocation, whether it succeeds or fails at some
\* stage, results in exactly one insert into the audit store.
C11_OneInsertPerInvocation ==
    \A i \in Procs :
        pc[i] \in { "done", "panicked" } => Cardinality(MyDbExecs(i)) = 1

\* C11 amended: an invocation issues exactly one audit insert when its job
\* submission succeeded, and none when it ended at an earlier stage.
C11_OneInsertPerSubmittedJob ==
    \A i \in Procs :
        /\ Cardinality(MyDbExecs(i)) <= 1
        /\ pc[i] \in { "done", "panicked" } =>
              Cardinality(MyDbExecs(i)) = IF JobSubmitted(i) THEN 1 ELSE 0
        /\ \A d \in MyDbExecs(i) :
              /\ dbExecs[d].row.jobid = local[i].jobId
              /\ dbExecs[d].row.jobid # 0

\* C11 witness: an invocation rejected by the authorization service ended
\* without an insert, after an invocation that submitted a job and inserted
\* its row.
C11_Witness ==
    \E i \in Procs :
        /\ pc[i] = "done"
        /\ failedAt[i] = "authorization"
        /\ MyDbExecs(i) = { }
        /\ \E d \in DOMAIN dbExecs : dbExecs[d].err = << >>


\* The configured allow-list as the claim reads it: the ids listed in
\* VALID_VAULT_IDS, none when the variable is unset or empty (init() then
\* leaves the one-element slice [""]).
ConfiguredVaultIds ==
    IF validVaultIds = << << >> >>
    THEN { }
    ELSE { validVaultIds[k] : k \in DOMAIN validVaultIds }

\* C12: ValidateVaultId returns true if and only if the vault id equals a
\* member of the configured allow-list; with an empty allow-list it returns
\* false for every vault id, the empty string included.
C12_AllowListMembership ==
    \A i \in Procs :
        Started(i, "tenant") =>
            /\ failedAt[i] # "tenant" <=> local[i].vaultId \in ConfiguredVaultIds
            /\ ConfiguredVaultIds = { } => failedAt[i] = "tenant"

\* The destination as the request body gave it ("" when it gave none).
RequestDestination(i) ==
    IF \E m \in local[i].requestBody : m[1] = "destination"
    THEN (CHOOSE m \in local[i].requestBody : m[1] = "destination")[2]
    ELSE << >>

\* s3://bucket/key with a bucket of one or more non-"/" characters and any
\* non-empty key.
BucketAndNonEmptyKey(s) ==
    LET parts == Split(s, SLASH)
    IN  /\ Len(parts) >= 4
        /\ parts[1] = << "s", "3", ":" >>
        /\ parts[2] = << >>
        /\ parts[3] # << >>
        /\ Len(s) > 5 + Len(parts[3]) + 1

\* The same, with a key that ends in a non-empty segment or in a non-empty
\* segment and one "/", and has no newline in the segments before it.
BucketAndNamedKey(s) ==
    LET parts == Split(s, SLASH)
        n == Len(parts)
        last == IF parts[n] # << >> THEN n ELSE n - 1
    IN  /\ n >= 4
        /\ parts[1] = << "s", "3", ":" >>
        /\ parts[2] = << >>
        /\ parts[3] # << >>
        /\ last >= 4
        /\ parts[last] # << >>
        /\ \A k \in 4..(last - 1) : \A j \in DOMAIN parts[k] : parts[k][j] # NEWLINE

\* C15 as stated: the destination is accepted if and only if it is
\* s3://bucket/key with a non-empty bucket without "/" and any non-empty
\* key; every other string is answered 400; the string is matched as given.
C15_AcceptsAnyNonEmptyKey ==
    \A i \in Procs :
        (Started(i, "destination") /\ pc[i] # "panicked") =>
            /\ local[i].body.Destination = RequestDestination(i)
            /\ failedAt[i] # "destination"
                  <=> BucketAndNonEmptyKey(local[i].body.Destination)
            /\ failedAt[i] = "destination" =>
                  /\ apiResponse[i].StatusCode = 400
                  /\ apiResponse[i].Body =
                        FailureResponse(myId[i], << "Invalid s3 destination path." >>)

\* C15 amended: the destination is accepted if and only if it is
\* s3://bucket/key with a non-empty bucket without "/" and a key that ends
\* in a non-empty run of non-"/" characters, optionally followed by one
\* "/", with no newline before the segment of that run; every other string
\* is answered 400; the string is matched as given.
C15_AcceptsNamedKey ==
    \A i \in Procs :
        (Started(i, "destination") /\ pc[i] # "panicked") =>
            /\ local[i].body.Destination = RequestDestination(i)
            /\ failedAt[i] # "destination"
                  <=> BucketAndNamedKey(local[i].body.Destination)
            /\ failedAt[i] = "destination" =>
                  /\ apiResponse[i].StatusCode = 400
                  /\ apiResponse[i].Body =
                        FailureResponse(myId[i], << "Invalid s3 destination path." >>)

\* C15 witness: s3://b// has been answered 400.
C15_Witness ==
    \E i \in Procs :
        /\ pc[i] = "done"
        /\ local[i].body.Destination =
              << "s", "3", ":", SLASH, SLASH, "b", SLASH, SLASH >>
        /\ BucketAndNonEmptyKey(local[i].body.Destination)
        /\ apiResponse[i].StatusCode = 400

\* The first whitespace-delimited token of a header.
RECURSIVE FirstField(_)
FirstField(s) ==
    IF s = << >> THEN << >>
    ELSE IF s[1] \in { SP, TAB } THEN FirstField(Tail(s))
    ELSE LET stops == { k \in DOMAIN s : s[k] \in { SP, TAB } }
         IN  IF stops = { } THEN s
             ELSE SubSeq(s, 1, (CHOOSE k \in stops : \A j \in stops : k <= j) - 1)

\* The header is "Bearer" alone or begins with "Bearer" and a space.
BearerThenSpace(s) ==
    /\ Len(s) >= 1
    /\ s[1] = "Bearer"
    /\ Len(s) >= 2 => s[2] = SP

\* C16 as stated: the scheme check passes if and only if the first
\* whitespace-delimited token of the header is "Bearer"; every other header
\* is answered 401 "Auth Scheme not supported".
C16_FirstWhitespaceToken ==
    \A i \in Procs :
        (Started(i, "scheme") /\ pc[i] # "panicked") =>
            /\ failedAt[i] # "scheme" <=> FirstField(local[i].token) = << "Bearer" >>
            /\ failedAt[i] = "scheme" =>
                  /\ apiResponse[i].StatusCode = 401
                  /\ apiResponse[i].Body =
                        FailureResponse(myId[i], << "Auth Scheme not supported" >>)

\* C16 amended: the scheme check passes if and only if the text of the
\* header before its first space character (the whole header when it has
\* none) is "Bearer"; every other header is answered 401 "Auth Scheme not
\* supported".
C16_TextBeforeFirstSpace ==
    \A i \in Procs :
        Started(i, "scheme") =>
            /\ failedAt[i] # "scheme" <=> BearerThenSpace(local[i].token)
            /\ failedAt[i] = "scheme" =>
                  /\ pc[i] = "done"
                  /\ apiResponse[i].StatusCode = 401
                  /\ apiResponse[i].Body =
                        FailureResponse(myId[i], << "Auth Scheme not supported" >>)

\* C16 witness: a header with a tab after "Bearer" has been answered 401.
C16_Witness ==
    \E i \in Procs :
        /\ pc[i] = "done"
        /\ local[i].token = << "Bearer", TAB, "T_OK" >>
        /\ FirstField(local[i].token) = << "Bearer" >>
        /\ apiResponse[i].StatusCode = 401


\* C13: with an empty query SkyflowAuthorization returns status 401 and an
\* error text without sending a request; the invocation is answered 401
\* and submits no job.
C13_EmptyQueryUnauthorized ==
    \A i \in Procs :
        ( /\ Started(i, "authorization")
          /\ \E m \in local[i].requestBody : m = << "query", << >> >> ) =>
            /\ local[i].authResponse.StatusCode = 401
            /\ local[i].authResponse.Error # << >>
            /\ MyAuthCalls(i) = { }
            /\ MyEmrCalls(i) = { }
            /\ pc[i] = "done"
            /\ apiResponse[i].StatusCode = 401
            /\ apiResponse[i].Body =
                  FailureResponse(myId[i], local[i].authResponse.Error)

\* C13 witness: an otherwise valid request with an empty query has been
\* answered 401.
C13_Witness ==
    \E i \in Procs :
        /\ pc[i] = "done"
        /\ failedAt[i] = "authorization"
        /\ local[i].body.Query = << >>
        /\ apiResponse[i].StatusCode = 401
        /\ authCalls = << >>

LoggedIds ==
    { emrCalls[k].args[2] : k \in DOMAIN emrCalls }
        \cup { dbExecs[d].row.id : d \in DOMAIN dbExecs }

\* C17: with invocations one after another, each invocation generates at
\* its start an id that differs from the ids of the earlier ones, and that
\* id is the one in its job arguments, in its audit row and in its response
\* body, on success and on every failure path.
C17_FreshIdUsedThroughout ==
    /\ [](\A i \in Procs :
            /\ pc[i] # "idle" => myId[i] = id
            /\ pc[i] = "done" => apiResponse[i].Body.id = myId[i]
            /\ \A k \in MyEmrCalls(i) : emrCalls[k].args[2] = myId[i]
            /\ \A d \in MyDbExecs(i) : dbExecs[d].row.id = myId[i]
            /\ \A k \in DOMAIN emrCalls :
                  emrCalls[k].by # myId[i] => emrCalls[k].args[2] # myId[i]
            /\ \A d \in DOMAIN dbExecs :
                  dbExecs[d].by # myId[i] => dbExecs[d].row.id # myId[i])
    /\ [][\A i \in Procs :
            (pc[i] = "idle" /\ pc'[i] # "idle") =>
                /\ myId'[i] = id'
                /\ id' # id
                /\ id' \notin LoggedIds]_vars

\* C17 witness: the second invocation has been answered 200 after the first
\* one wrote its audit row.
C17_Witness ==
    \E i \in Procs :
        /\ pc[i] = "done"
        /\ myId[i] = 2
        /\ apiResponse[i].Body.type = "SuccessResponse"
        /\ \E d \in DOMAIN dbExecs : dbExecs[d].by = 1

\* C18: a response has status 200 if and only if its body is a
\* SuccessResponse, whatever status the authorization service returned.
C18_EnvelopeMatchesStatus ==
    \A i \in Procs :
        pc[i] = "done" =>
            /\ apiResponse[i].Body.type \in { "SuccessResponse", "FailureResponse" }
            /\ apiResponse[i].StatusCode = 200
                  <=> apiResponse[i].Body.type = "SuccessResponse"
            /\ apiResponse[i].Body.type = "SuccessResponse" => failedAt[i] = ""
            /\ apiResponse[i].Body.type = "FailureResponse" => failedAt[i] # ""

\* C18 witness: the service answered 204 and the caller got a
\* FailureResponse with status 204, after an invocation answered 200.
C18_Witness ==
    \E i \in Procs :
        /\ pc[i] = "done"
        /\ apiResponse[i].StatusCode = 204
        /\ apiResponse[i].Body.type = "FailureResponse"
        /\ \E d \in DOMAIN dbExecs : dbExecs[d].err = << >>

\* How many atoms of s are "Bearer".
BearerCount(s) == Cardinality({ k \in DOMAIN s : s[k] = "Bearer" })

\* C19: the credential is sent to the authorization service only by an
\* invocation whose header passed the scheme check, the claim extraction
\* and the tenant check, and the Authorization header sent is the incoming
\* one unchanged, with the Bearer prefix exactly once.
C19_CredentialForwardedVerbatim ==
    \A i \in Procs :
        \A k \in MyAuthCalls(i) :
            /\ authCalls[k].Authorization = local[i].token
            /\ BearerThenSpace(local[i].token)
            /\ ClaimExtracted(i)
            /\ TenantAllowed(i)
            /\ BearerCount(authCalls[k].Authorization) = 1
            /\ authCalls[k].Authorization[1] = "Bearer"

\* C19 witness: an invocation has sent its credential to the service.
C19_Witness ==
    \E i \in Procs :
        /\ MyAuthCalls(i) # { }
        /\ local[i].token = << "Bearer", SP, "T_OK" >>
        /\ pc[i] = "job"

\* The region member of the request body, or the configured region.
RequestedRegion(i) ==
    IF \E m \in local[i].requestBody : m[1] = "region"
    THEN (CHOOSE m \in local[i].requestBody : m[1] = "region")[2]
    ELSE region

\* C20: the job is always submitted with the arguments query, request id,
\* secret reference and configured region, whatever region the request
\* names; the audit row holds the request's region when it names one and
\* the configured region otherwise; no invocation changes the configured
\* region.
C20_RegionOverrideOnlyInAudit ==
    /\ region \in EnvRegions
    /\ \A i \in Procs :
          /\ \A k \in MyEmrCalls(i) :
                /\ emrCalls[k].args =
                      << local[i].body.Query, myId[i], secrets, region >>
                /\ Len(emrCalls[k].args) = 4
                /\ emrCalls[k].args[4] \in EnvRegions
          /\ \A d \in MyDbExecs(i) :
                dbExecs[d].row.cross_bucket_region = RequestedRegion(i)

\* C20 witness: a request naming eu-west-1 has its job submitted with
\* us-east-1 and its audit row written with eu-west-1.
C20_Witness ==
    \E i \in Procs :
        /\ \E k \in MyEmrCalls(i) : emrCalls[k].args[4] = << "us-east-1" >>
        /\ \E d \in MyDbExecs(i) :
              dbExecs[d].row.cross_bucket_region = << "eu-west-1" >>

====
